---- MODULE Spec2Model ----
(***************************************************************************)
(* The sequential gauntlet state machine of NuzlockeGauntletEnv            *)
(* (src/nuzlocke_gauntlet_rl/envs/nuzlocke_env.py): reset(), step() with   *)
(* one handler per phase, _run_battle() and valid_action_mask(), with the  *)
(* gauntlet graph of build_gauntlet_graph and the starter table of         *)
(* NuzlockeMechanics.                                                      *)
(*                                                                         *)
(* Rewards are kept in hundredths (1.0 is 100, -0.01 is -1).  A roster     *)
(* instance is named by its position in the roster (the roster only grows  *)
(* by append within a run), so party and build_current_mon hold roster     *)
(* positions: position p is the action value p - 1.                        *)
(*                                                                         *)
(* Two further components, each under a specification of its own, with the *)
(* variables of the others held fixed: the queue hand-off between the      *)
(* threads of ThreadedBattleEnv (envs/threaded_ray_env.py) and the team    *)
(* sampling of SmogonDataFetcher.generate_team (data/smogon.py).           *)
(***************************************************************************)
EXTENDS Integers, Sequences, FiniteSets, TLC

VARIABLES
    trainers,             \* gauntlet_template.trainers, fixed at construction
    current_phase,
    roster,
    party,
    rebuild_count,
    current_node_id,
    visited_routes,
    build_current_mon,
    build_current_moves,
    current_party_slot,
    current_move_slot,
    ret,                  \* what the last call returned (or that it raised)
    call,                 \* which handler the last call ran, on which inputs
    free_rebuild,         \* history: no rebuild yet since reset()/construction
                          \* or since the last won battle
    mask_followed,        \* history: the last rebuild and every action of
                          \* step() since were allowed by valid_action_mask
    \* ThreadedBattleEnv and BridgePlayer (envs/threaded_ray_env.py)
    action_queue,         \* queue.Queue(maxsize=1): actions in flight
    obs_queue,            \* queue.Queue(maxsize=1): transitions in flight
    env_pc,               \* where the environment thread stands
    env_action,           \* history: the action of the current or last step()
    env_ret,              \* what reset()/step() returned last
    in_episode,           \* what the caller knows: "none", "running", "ended"
    player_pc,            \* where the player's event-loop thread stands
    battle,               \* number of the battle the challenge loop runs
    consumed,             \* history: the action choose_move took last
    \* SmogonDataFetcher.generate_team (data/smogon.py)
    data_source,          \* self.data.get(format_id): loaded?, "data"
    size,
    team_pc,              \* where generate_team stands
    chosen_mons,
    mon_idx,              \* position of mon_name in chosen_mons
    moves,
    attempts,
    team_parts            \* per member: species and moves; the result

gauntlet_vars ==
    <<trainers, current_phase, roster, party, rebuild_count,
      current_node_id, visited_routes, build_current_mon,
      build_current_moves, current_party_slot, current_move_slot,
      ret, call, free_rebuild, mask_followed>>

handoff_vars ==
    <<action_queue, obs_queue, env_pc, env_action, env_ret, in_episode,
      player_pc, battle, consumed>>

team_vars ==
    <<data_source, size, team_pc, chosen_mons, mon_idx, moves, attempts,
      team_parts>>

vars == <<gauntlet_vars, handoff_vars, team_vars>>

(* no ThreadedBattleEnv has been constructed *)
NoAction == [n |-> 0, battle |-> 0, action |-> 0]

NoTransition == [kind |-> "none", battle |-> 0, after |-> 0,
                 terminated |-> FALSE]

HandoffIdle ==
    /\ action_queue = <<>>
    /\ obs_queue = <<>>
    /\ env_pc = "idle"
    /\ env_action = NoAction
    /\ env_ret = NoTransition
    /\ in_episode = "none"
    /\ player_pc = "unborn"
    /\ battle = 0
    /\ consumed = [n |-> 0, battle |-> 0, action |-> 0, by |-> 0]

(* generate_team has not been called *)
TeamIdle ==
    /\ data_source = [loaded |-> FALSE, data |-> <<>>]
    /\ size = 0
    /\ team_pc = "idle"
    /\ chosen_mons = <<>>
    /\ mon_idx = 0
    /\ moves = <<>>
    /\ attempts = 0
    /\ team_parts = <<>>

----------------------------------------------------------------------------
(* Bounds of the model *)

MaxRoster == 2
MaxTrainers == 2
MaxRebuilds == 3

(* Program constants *)

PHASE_DECISION == 0
PHASE_SELECT_STARTER == 3
PHASE_STRATEGIST == 4
PHASE_BUILD_SPECIES == 5
PHASE_BUILD_MOVE == 6
PHASE_BUILD_ITEM == 7

max_roster_size == 400
NumStarters == 27
DefaultStarter == 1
StarterLevel == 5
MinTargetLevel == 5
MovesPerMember == 4
PartySize == 6

WinReward == 100
LossReward == 100
DeathPenalty == 10
WipePenalty == 500
RebuildPenalty == 50
InvalidPickPenalty == 1

(* Values of the trainer data used by the model *)
LowTeamLevel == 3
CapLevel == 8
HighTeamLevel == 12

NoMon == 0
StaleMon == -1
NoNode == 0
NoCap == 0

Max(a, b) == IF a >= b THEN a ELSE b

Range(s) == {s[i] : i \in DOMAIN s}

----------------------------------------------------------------------------
(* MovesetGenerator: the global move table; id 0 is reserved *)

all_moves_list == <<"growl", "leer", "scratch", "tackle">>

max_move_id == Len(all_moves_list)

NoMove == "none"

get_move_name(move_id) ==
    IF move_id \in 1..max_move_id THEN all_moves_list[move_id] ELSE NoMove

action_space_size == Max(max_roster_size, max_move_id + 1)

----------------------------------------------------------------------------
(* The gauntlet graph: build_gauntlet_graph makes a chain, node i for      *)
(* trainer i, start at the first trainer                                   *)

start_node_id == IF Len(trainers) > 0 THEN 1 ELSE NoNode

get_node(node_id) == IF node_id \in DOMAIN trainers THEN node_id ELSE NoNode

next_nodes(node_id) ==
    IF node_id \in DOMAIN trainers /\ node_id < Len(trainers)
    THEN <<node_id + 1>> ELSE <<>>

get_successors(node_id) ==
    IF get_node(node_id) = NoNode THEN <<>> ELSE next_nodes(node_id)

(* The trainer list of the gauntlet: a first trainer without level cap     *)
(* ("Rival Lab", load_complete_gauntlet), then trainers stitched with the  *)
(* level cap of the trainer order; trainers without cap and with a higher  *)
(* team level alternate with them                                          *)
TrainerAt(i) ==
    IF i % 2 = 1
    THEN [level_cap |-> NoCap,    team |-> <<LowTeamLevel>>]
    ELSE [level_cap |-> CapLevel, team |-> <<HighTeamLevel>>]

Gauntlets ==
    { [i \in 1..n |-> TrainerAt(i)] : n \in 0..MaxTrainers }

RECURSIVE SeqMax(_)
SeqMax(s) == IF Len(s) = 1 THEN s[1] ELSE Max(s[1], SeqMax(Tail(s)))

TargetLevel(trainer) ==
    LET t == IF trainer.level_cap # NoCap THEN trainer.level_cap
             ELSE IF Len(trainer.team) > 0 THEN SeqMax(trainer.team)
             ELSE MinTargetLevel
    IN  Max(MinTargetLevel, t)

----------------------------------------------------------------------------
(* NuzlockeMechanics.get_starter_choice *)

(* the moves of the table's entries 0 and 1; the moves of a starter are   *)
(* replaced by the builder before its first battle                        *)
StarterMoves(species) ==
    IF species = DefaultStarter THEN <<"scratch", "growl">>
    ELSE <<"tackle", "growl">>

get_starter_choice(choice_idx) ==
    LET species == IF 0 <= choice_idx /\ choice_idx < NumStarters
                   THEN choice_idx ELSE DefaultStarter
    IN  [species |-> species, level |-> StarterLevel,
         moves |-> StarterMoves(species), alive |-> TRUE, in_party |-> FALSE]

----------------------------------------------------------------------------
(* MovesetGenerator.get_learnable_moves_ids_at_level: the level-up moves   *)
(* of the species up to the level.  The learnset is data of the generation *)
(* tables: here a species learns move id k at level 1 + (k - 1) * step,    *)
(* with step 3 or 1 by species, and every third species has no learnset.   *)

LearnStepSlow == 3
LearnStepFast == 1
LearnKinds == 3

HasLearnset(species) == species % LearnKinds # 2

LearnLevel(species, move_id) ==
    1 + (move_id - 1) *
        (IF species % LearnKinds = 0 THEN LearnStepSlow ELSE LearnStepFast)

get_learnable_moves_ids_at_level(species, level) ==
    { mid \in 1..max_move_id :
        HasLearnset(species) /\ LearnLevel(species, mid) <= level }

----------------------------------------------------------------------------
(* valid_action_mask(): mask[action], for 0 <= action < action_space_size *)

Actions == 0..(action_space_size - 1)

SelectablePositions ==
    { p \in DOMAIN roster : roster[p].alive /\ p \notin Range(party) }

LegalMoveIds ==
    IF build_current_mon \in DOMAIN roster
    THEN { mid \in get_learnable_moves_ids_at_level(
                       roster[build_current_mon].species,
                       roster[build_current_mon].level) :
             get_move_name(mid) \notin Range(build_current_moves) }
    ELSE {}

DecisionMaskFightAlways(action) == action = 0 \/ action = 1

(* lines 397-410: the DECISION branch of the mask *)
DecisionMask(action) == (action = 0 /\ party # <<>>) \/ action = 1

valid_action_mask(action) ==
    /\ action \in Actions
    /\ CASE current_phase = PHASE_SELECT_STARTER -> action < NumStarters
         [] current_phase = PHASE_DECISION -> DecisionMask(action)
         [] current_phase = PHASE_BUILD_SPECIES ->
                IF SelectablePositions # {}
                THEN (action + 1) \in SelectablePositions
                ELSE action = 0
         [] current_phase = PHASE_BUILD_MOVE ->
                IF LegalMoveIds # {}
                THEN action \in LegalMoveIds
                ELSE action = 0
         [] current_phase = PHASE_BUILD_ITEM -> TRUE
         [] OTHER -> FALSE

----------------------------------------------------------------------------
(* Results of a call *)

Returned(reward, terminated, truncated, info) ==
    [kind |-> "return", reward |-> reward, terminated |-> terminated,
     truncated |-> truncated, info |-> info]

Raised ==
    [kind |-> "raise", reward |-> 0, terminated |-> FALSE,
     truncated |-> FALSE, info |-> "none"]

NoCall ==
    [kind |-> "none", reward |-> 0, terminated |-> FALSE,
     truncated |-> FALSE, info |-> "none"]

Call(op, action) ==
    [op |-> op, action |-> action, sim |-> "none", deaths |-> 0,
     survivors |-> <<>>, cutoff |-> FALSE,
     node_before |-> current_node_id, free |-> free_rebuild,
     legal |-> valid_action_mask(action)]

----------------------------------------------------------------------------
(* State after __init__ *)

Init ==
    /\ trainers \in Gauntlets
    /\ current_phase = PHASE_DECISION
    /\ roster = <<>>
    /\ party = <<>>
    /\ rebuild_count = 0
    /\ current_node_id = start_node_id
    /\ visited_routes = {}
    /\ build_current_mon = NoMon
    /\ build_current_moves = <<>>
    /\ current_party_slot = 0
    /\ current_move_slot = 0
    /\ ret = NoCall
    /\ call = [op |-> "init", action |-> 0, sim |-> "none", deaths |-> 0,
               survivors |-> <<>>, cutoff |-> FALSE,
               node_before |-> start_node_id, free |-> TRUE, legal |-> TRUE]
    /\ free_rebuild = TRUE
    /\ mask_followed = TRUE
    /\ HandoffIdle
    /\ TeamIdle

(* reset() *)
ResetKeepsRoster ==
    /\ current_node_id' = start_node_id
    /\ rebuild_count' = 0
    /\ roster' = roster
    /\ visited_routes' = {"PALLET TOWN"}
    /\ party' = <<>>
    /\ current_phase' = PHASE_SELECT_STARTER
    \* the build buffer is not cleared: the in-progress member of the old
    \* run stays referenced, and is no member of the new roster
    /\ build_current_mon' = IF build_current_mon = NoMon THEN NoMon ELSE StaleMon
    /\ ret' = NoCall
    /\ call' = [Call("reset", 0) EXCEPT !.legal = TRUE]
    /\ free_rebuild' = TRUE
    /\ mask_followed' = TRUE
    /\ UNCHANGED <<trainers, build_current_moves, current_party_slot,
                   current_move_slot>>

Reset ==
    /\ current_node_id' = start_node_id
    /\ rebuild_count' = 0
    /\ roster' = <<>>
    /\ visited_routes' = {"PALLET TOWN"}
    /\ party' = <<>>
    /\ current_phase' = PHASE_SELECT_STARTER
    \* the build buffer is not cleared: the in-progress member of the old
    \* run stays referenced, and is no member of the new roster
    /\ build_current_mon' = IF build_current_mon = NoMon THEN NoMon ELSE StaleMon
    /\ ret' = NoCall
    /\ call' = [Call("reset", 0) EXCEPT !.legal = TRUE]
    /\ free_rebuild' = TRUE
    /\ mask_followed' = TRUE
    /\ UNCHANGED <<trainers, build_current_moves, current_party_slot,
                   current_move_slot>>

----------------------------------------------------------------------------
(* Inputs of step(): a few action values per phase, among them values the  *)
(* mask does not allow.  A move is the reserved id 0, id 1, the lowest id  *)
(* the mask allows, or an id beyond the move table.                        *)

StarterInputs == {0, 1, NumStarters - 1, NumStarters}
StrategistInputs == {0, 1}
FightInputs == {0, 2}
SpeciesInputs == 0..MaxRoster
MoveInputs ==
    {0, 1, max_move_id + 1} \cup
    (IF LegalMoveIds = {} THEN {}
     ELSE {CHOOSE mid \in LegalMoveIds : \A other \in LegalMoveIds : mid <= other})
ItemInputs == {0}

StepSelectStarterNoFallback(action) ==
    /\ current_phase = PHASE_SELECT_STARTER
    /\ roster' = IF 0 <= action /\ action < NumStarters
                 THEN Append(roster, get_starter_choice(action))
                 ELSE roster
    /\ current_phase' = PHASE_STRATEGIST
    /\ ret' = Returned(0, FALSE, FALSE, "metrics_empty")
    /\ call' = Call("starter", action)
    /\ mask_followed' = (mask_followed /\ valid_action_mask(action))
    /\ UNCHANGED <<trainers, party, rebuild_count, current_node_id,
                   visited_routes, build_current_mon, build_current_moves,
                   current_party_slot, current_move_slot, free_rebuild>>

(* step(), PHASE_SELECT_STARTER *)
StepSelectStarter(action) ==
    /\ current_phase = PHASE_SELECT_STARTER
    /\ roster' = Append(roster, get_starter_choice(action))
    /\ current_phase' = PHASE_STRATEGIST
    /\ ret' = Returned(0, FALSE, FALSE, "metrics_empty")
    /\ call' = Call("starter", action)
    /\ mask_followed' = (mask_followed /\ valid_action_mask(action))
    /\ UNCHANGED <<trainers, party, rebuild_count, current_node_id,
                   visited_routes, build_current_mon, build_current_moves,
                   current_party_slot, current_move_slot, free_rebuild>>

StepStrategistAdvances(action) ==
    /\ current_phase = PHASE_STRATEGIST
    /\ current_phase' = PHASE_DECISION
    /\ current_node_id' = IF get_successors(current_node_id) # <<>>
                          THEN get_successors(current_node_id)[1]
                          ELSE current_node_id
    /\ ret' = Returned(0, FALSE, FALSE, "empty")
    /\ call' = Call("strategist", action)
    /\ mask_followed' = (mask_followed /\ valid_action_mask(action))
    /\ UNCHANGED <<trainers, roster, party, rebuild_count,
                   visited_routes, build_current_mon, build_current_moves,
                   current_party_slot, current_move_slot, free_rebuild>>

(* step(), PHASE_STRATEGIST *)
StepStrategist(action) ==
    /\ current_phase = PHASE_STRATEGIST
    /\ current_phase' = PHASE_DECISION
    /\ ret' = Returned(0, FALSE, FALSE, "empty")
    /\ call' = Call("strategist", action)
    /\ mask_followed' = (mask_followed /\ valid_action_mask(action))
    /\ UNCHANGED <<trainers, roster, party, rebuild_count, current_node_id,
                   visited_routes, build_current_mon, build_current_moves,
                   current_party_slot, current_move_slot, free_rebuild>>

RebuildRewardAlways == 0 - RebuildPenalty

(* step(), PHASE_DECISION, action 1: rebuild *)
RebuildReward == IF rebuild_count > 0 THEN 0 - RebuildPenalty ELSE 0

StepRebuild ==
    /\ current_phase = PHASE_DECISION
    /\ rebuild_count < MaxRebuilds
    /\ rebuild_count' = rebuild_count + 1
    /\ current_phase' = PHASE_BUILD_SPECIES
    /\ current_party_slot' = 0
    /\ party' = <<>>
    /\ ret' = Returned(RebuildReward, FALSE, FALSE, "empty")
    /\ call' = Call("rebuild", 1)
    /\ mask_followed' = valid_action_mask(1)
    /\ free_rebuild' = FALSE
    /\ UNCHANGED <<trainers, roster, current_node_id, visited_routes,
                   build_current_mon, build_current_moves, current_move_slot>>

ValidPickNoDupCheck(action) ==
    /\ 0 <= action /\ action < Len(roster)
    /\ roster[action + 1].alive

ValidPickNoAliveCheck(action) ==
    /\ 0 <= action /\ action < Len(roster)
    /\ (action + 1) \notin Range(party)

(* step(), PHASE_BUILD_SPECIES *)
ValidPick(action) ==
    /\ 0 <= action /\ action < Len(roster)
    /\ roster[action + 1].alive
    /\ (action + 1) \notin Range(party)

SpeciesReward(action) ==
    IF 0 <= action /\ action < Len(roster) /\ ~ValidPick(action)
    THEN 0 - InvalidPickPenalty ELSE 0

StepBuildSpecies(action) ==
    /\ current_phase = PHASE_BUILD_SPECIES
    /\ IF ValidPick(action)
       THEN /\ build_current_mon' = action + 1
            /\ build_current_moves' = <<>>
            /\ current_move_slot' = 0
            /\ current_phase' = PHASE_BUILD_MOVE
       ELSE UNCHANGED <<build_current_mon, build_current_moves,
                        current_move_slot, current_phase>>
    /\ ret' = Returned(SpeciesReward(action), FALSE, FALSE, "empty")
    /\ call' = Call("species", action)
    /\ mask_followed' = (mask_followed /\ valid_action_mask(action))
    /\ UNCHANGED <<trainers, roster, party, rebuild_count, current_node_id,
                   visited_routes, current_party_slot, free_rebuild>>

(* step(), PHASE_BUILD_MOVE *)
AcceptsMove(action) ==
    build_current_mon # NoMon /\ get_move_name(action) # NoMove

StepBuildMove(action) ==
    /\ current_phase = PHASE_BUILD_MOVE
    /\ IF AcceptsMove(action)
       THEN /\ build_current_moves' =
                   Append(build_current_moves, get_move_name(action))
            /\ current_move_slot' = current_move_slot + 1
            /\ current_phase' = IF current_move_slot + 1 >= MovesPerMember
                                THEN PHASE_BUILD_ITEM ELSE PHASE_BUILD_MOVE
       ELSE UNCHANGED <<build_current_moves, current_move_slot, current_phase>>
    /\ ret' = Returned(0, FALSE, FALSE, "empty")
    /\ call' = Call("move", action)
    /\ mask_followed' = (mask_followed /\ valid_action_mask(action))
    /\ UNCHANGED <<trainers, roster, party, rebuild_count, current_node_id,
                   visited_routes, build_current_mon, current_party_slot,
                   free_rebuild>>

(* step(), PHASE_BUILD_ITEM: finalize the member *)
Finalized(r) ==
    IF build_current_mon \in DOMAIN r
    THEN [r EXCEPT ![build_current_mon].moves = build_current_moves]
    ELSE r

ItemNextPhaseNeverDone(slot) == PHASE_BUILD_SPECIES

(* lines 283-290: the builder is done when the slot counter reaches 6 *)
ItemNextPhase(slot) ==
    IF slot >= PartySize THEN PHASE_DECISION ELSE PHASE_BUILD_SPECIES

StepBuildItem(action) ==
    /\ current_phase = PHASE_BUILD_ITEM
    /\ roster' = IF build_current_mon # NoMon THEN Finalized(roster) ELSE roster
    /\ party' = IF build_current_mon # NoMon
                THEN Append(party, build_current_mon) ELSE party
    /\ current_party_slot' = current_party_slot + 1
    /\ current_phase' = ItemNextPhase(current_party_slot + 1)
    /\ ret' = Returned(0, FALSE, FALSE, "empty")
    /\ call' = Call("item", action)
    /\ mask_followed' = (mask_followed /\ valid_action_mask(action))
    /\ UNCHANGED <<trainers, rebuild_count, current_node_id, visited_routes,
                   build_current_mon, build_current_moves, current_move_slot,
                   free_rebuild>>

----------------------------------------------------------------------------
(* _run_battle(): step() in PHASE_DECISION with any action other than 1 *)

ScaledLevelSet(level, target_level) == target_level

(* lines 302-313: ratchet leveling of the party *)
ScaledLevel(level, target_level) == Max(level, target_level)

LevelScaled(r, target_level) ==
    [i \in DOMAIN r |->
        IF i \in Range(party)
        THEN [r[i] EXCEPT !.level = ScaledLevel(r[i].level, target_level)]
        ELSE r[i]]

DiedWithAny(p, survivors) ==
    p \in Range(party) /\ \E i \in DOMAIN party : ~survivors[i]

(* lines 319-325: apply deaths *)
Died(p, survivors) == \E i \in DOMAIN party : party[i] = p /\ ~survivors[i]

DeathsAppliedRevives(r, survivors) ==
    [p \in DOMAIN r |-> [r[p] EXCEPT !.alive = ~Died(p, survivors)]]

DeathsApplied(r, survivors) ==
    [p \in DOMAIN r |->
        IF Died(p, survivors) THEN [r[p] EXCEPT !.alive = FALSE] ELSE r[p]]

Deaths(survivors) == Cardinality({i \in DOMAIN party : ~survivors[i]})

AnyAlive(r) == \E p \in DOMAIN r : r[p].alive

SurvivorLists == [DOMAIN party -> BOOLEAN]

(* lines 295-298: the current node holds no trainer *)
FightNoTrainer(action) ==
    /\ current_phase = PHASE_DECISION
    /\ get_node(current_node_id) = NoNode
    /\ ret' = Returned(0, TRUE, FALSE, "error")
    /\ call' = Call("fight", action)
    /\ mask_followed' = (mask_followed /\ valid_action_mask(action))
    /\ UNCHANGED <<trainers, current_phase, roster, party, rebuild_count,
                   current_node_id, visited_routes, build_current_mon,
                   build_current_moves, current_party_slot, current_move_slot,
                   free_rebuild>>

(* line 317: the simulator fails; the exception leaves step() *)
FightSimRaises(action) ==
    /\ current_phase = PHASE_DECISION
    /\ get_node(current_node_id) # NoNode
    /\ roster' = LevelScaled(roster, TargetLevel(trainers[current_node_id]))
    /\ ret' = Raised
    /\ call' = [Call("fight", action) EXCEPT !.sim = "raise"]
    /\ mask_followed' = (mask_followed /\ valid_action_mask(action))
    /\ UNCHANGED <<trainers, current_phase, party, rebuild_count,
                   current_node_id, visited_routes, build_current_mon,
                   build_current_moves, current_party_slot, current_move_slot,
                   free_rebuild>>

LossTerminatedOnWipe(wiped) == wiped

(* lines 350-352, 356-358, 379-380: a loss ends the run, wiped or not *)
LossTerminated(wiped) == TRUE \/ wiped

(* lines 350-359, 379-388: the simulator reports a loss *)
LossTotal(deaths, wiped) ==
    0 - LossReward - deaths * DeathPenalty - (IF wiped THEN WipePenalty ELSE 0)

FightLoss(action, survivors) ==
    /\ current_phase = PHASE_DECISION
    /\ get_node(current_node_id) # NoNode
    /\ LET scaled == LevelScaled(roster, TargetLevel(trainers[current_node_id]))
           after  == DeathsApplied(scaled, survivors)
       IN  /\ roster' = after
           /\ ret' = Returned(LossTotal(Deaths(survivors), ~AnyAlive(after)),
                              LossTerminated(~AnyAlive(after)), FALSE,
                              "metrics")
    /\ call' = [Call("fight", action) EXCEPT !.sim = "loss",
                                             !.deaths = Deaths(survivors),
                                             !.survivors = survivors]
    /\ mask_followed' = (mask_followed /\ valid_action_mask(action))
    /\ UNCHANGED <<trainers, current_phase, party, rebuild_count,
                   current_node_id, visited_routes, build_current_mon,
                   build_current_moves, current_party_slot, current_move_slot,
                   free_rebuild>>

(* RealBattleSimulator.simulate_battle, lines 197-245: past 200 turns the   *)
(* simulator stops the battle and returns win = battle.won of a battle     *)
(* that has no winner, with the survivors and the metrics; the flag that   *)
(* it stopped is local to the simulator.  _run_battle takes the falsy win  *)
(* through the branch of a loss.                                           *)
FightCutOff(action, survivors) ==
    /\ current_phase = PHASE_DECISION
    /\ get_node(current_node_id) # NoNode
    /\ LET scaled == LevelScaled(roster, TargetLevel(trainers[current_node_id]))
           after  == DeathsApplied(scaled, survivors)
       IN  /\ roster' = after
           /\ ret' = Returned(LossTotal(Deaths(survivors), ~AnyAlive(after)),
                              LossTerminated(~AnyAlive(after)), FALSE,
                              "metrics")
    /\ call' = [Call("fight", action) EXCEPT !.sim = "loss",
                                             !.deaths = Deaths(survivors),
                                             !.survivors = survivors,
                                             !.cutoff = TRUE]
    /\ mask_followed' = (mask_followed /\ valid_action_mask(action))
    /\ UNCHANGED <<trainers, current_phase, party, rebuild_count,
                   current_node_id, visited_routes, build_current_mon,
                   build_current_moves, current_party_slot, current_move_slot,
                   free_rebuild>>

(* lines 331-337: the simulator reports a win.  rebuild_count is reset,    *)
(* then line 337 reads self.current_trainer_idx, an attribute that neither *)
(* __init__ nor reset() assigns (lines 134 and 152 are commented out): the *)
(* AttributeError leaves step() with the levels raised, the deaths applied *)
(* and the counter reset, and nothing after line 337 runs.                 *)
FightWin(action, survivors) ==
    /\ current_phase = PHASE_DECISION
    /\ get_node(current_node_id) # NoNode
    /\ LET scaled == LevelScaled(roster, TargetLevel(trainers[current_node_id]))
       IN  roster' = DeathsApplied(scaled, survivors)
    /\ rebuild_count' = 0
    /\ ret' = Raised
    /\ call' = [Call("fight", action) EXCEPT !.sim = "win",
                                             !.deaths = Deaths(survivors),
                                             !.survivors = survivors]
    /\ mask_followed' = (mask_followed /\ valid_action_mask(action))
    /\ free_rebuild' = TRUE
    /\ UNCHANGED <<trainers, current_phase, party, current_node_id,
                   visited_routes, build_current_mon, build_current_moves,
                   current_party_slot, current_move_slot>>

----------------------------------------------------------------------------
Next ==
    \/ Reset
          /\ UNCHANGED <<handoff_vars, team_vars>>
    \/ \E a \in StarterInputs : StepSelectStarter(a)
          /\ UNCHANGED <<handoff_vars, team_vars>>
    \/ \E a \in StrategistInputs : StepStrategist(a)
          /\ UNCHANGED <<handoff_vars, team_vars>>
    \/ StepRebuild
          /\ UNCHANGED <<handoff_vars, team_vars>>
    \/ \E a \in SpeciesInputs : StepBuildSpecies(a)
          /\ UNCHANGED <<handoff_vars, team_vars>>
    \/ \E a \in MoveInputs : StepBuildMove(a)
          /\ UNCHANGED <<handoff_vars, team_vars>>
    \/ \E a \in ItemInputs : StepBuildItem(a)
          /\ UNCHANGED <<handoff_vars, team_vars>>
    \/ \E a \in FightInputs : FightNoTrainer(a)
          /\ UNCHANGED <<handoff_vars, team_vars>>
    \/ \E a \in FightInputs : FightSimRaises(a)
          /\ UNCHANGED <<handoff_vars, team_vars>>
    \/ \E a \in FightInputs : \E s \in SurvivorLists : FightLoss(a, s)
          /\ UNCHANGED <<handoff_vars, team_vars>>
    \/ \E a \in FightInputs : \E s \in SurvivorLists : FightCutOff(a, s)
          /\ UNCHANGED <<handoff_vars, team_vars>>
    \/ \E a \in FightInputs : \E s \in SurvivorLists : FightWin(a, s)
          /\ UNCHANGED <<handoff_vars, team_vars>>

Spec == Init /\ [][Next]_vars

----------------------------------------------------------------------------
(* A run in progress, taken at a DECISION point: the roster holds the      *)
(* starter and the creatures of earlier route unlocks (_create_mon: no     *)
(* moves yet), some of them lost in earlier battles and some raised by     *)
(* earlier level scaling; the party is the one of the last build, with     *)
(* pairwise distinct members that may have died since.                     *)

HighLevel == 9

MidStarter == get_starter_choice(DefaultStarter)

_create_mon(species, level) ==
    [species |-> species, level |-> level, moves |-> <<>>,
     alive |-> TRUE, in_party |-> FALSE]

MidMember(p, level, alive) ==
    [(IF p = 1 THEN MidStarter ELSE _create_mon(NumStarters + p, level))
        EXCEPT !.level = level, !.alive = alive]

(* levels of a roster: nobody raised yet, or every second creature raised *)
MidLevels(n) ==
    { [p \in 1..n |-> StarterLevel],
      [p \in 1..n |-> IF p % 2 = 0 THEN HighLevel ELSE StarterLevel] }

MidRosters ==
    UNION { { [p \in 1..n |-> MidMember(p, lv[p], al[p])] :
                lv \in MidLevels(n),
                al \in [1..n -> BOOLEAN] } : n \in 1..MaxRoster }

DistinctSeqs(n) ==
    UNION { { q \in [1..k -> 1..n] :
                \A i, j \in 1..k : i # j => q[i] # q[j] } : k \in 0..n }

MidInit ==
    /\ trainers \in Gauntlets
    /\ Len(trainers) > 0
    /\ current_node_id \in DOMAIN trainers
    /\ current_phase = PHASE_DECISION
    /\ roster \in MidRosters
    /\ AnyAlive(roster)
    /\ party \in DistinctSeqs(Len(roster))
    /\ Len(party) <= PartySize
    /\ rebuild_count \in {0, 1}
    /\ free_rebuild = (rebuild_count = 0)
    /\ visited_routes = {"PALLET TOWN"}
    /\ build_current_mon = NoMon
    /\ build_current_moves = <<>>
    /\ current_party_slot = Len(party)
    /\ current_move_slot = 0
    /\ ret = NoCall
    /\ call = [op |-> "init", action |-> 0, sim |-> "none", deaths |-> 0,
               survivors |-> <<>>, cutoff |-> FALSE,
               node_before |-> current_node_id, free |-> free_rebuild,
               legal |-> TRUE]
    /\ mask_followed = TRUE
    /\ HandoffIdle
    /\ TeamIdle

MidNext ==
    \/ Reset
          /\ UNCHANGED <<handoff_vars, team_vars>>
    \/ \E a \in StarterInputs : StepSelectStarter(a)
          /\ UNCHANGED <<handoff_vars, team_vars>>
    \/ \E a \in StrategistInputs : StepStrategist(a)
          /\ UNCHANGED <<handoff_vars, team_vars>>
    \/ StepRebuild
          /\ UNCHANGED <<handoff_vars, team_vars>>
    \/ \E a \in SpeciesInputs : StepBuildSpecies(a)
          /\ UNCHANGED <<handoff_vars, team_vars>>
    \/ \E a \in MoveInputs : StepBuildMove(a)
          /\ UNCHANGED <<handoff_vars, team_vars>>
    \/ \E a \in ItemInputs : StepBuildItem(a)
          /\ UNCHANGED <<handoff_vars, team_vars>>
    \/ \E a \in FightInputs : FightSimRaises(a)
          /\ UNCHANGED <<handoff_vars, team_vars>>
    \/ \E a \in FightInputs : \E s \in SurvivorLists : FightLoss(a, s)
          /\ UNCHANGED <<handoff_vars, team_vars>>
    \/ \E a \in FightInputs : \E s \in SurvivorLists : FightCutOff(a, s)
          /\ UNCHANGED <<handoff_vars, team_vars>>
    \/ \E a \in FightInputs : \E s \in SurvivorLists : FightWin(a, s)
          /\ UNCHANGED <<handoff_vars, team_vars>>

MidRunSpec == MidInit /\ [][MidNext]_vars

----------------------------------------------------------------------------
(* A run in progress whose roster holds more living creatures than a party *)
(* takes: the builder can fill all PartySize slots.  Every creature has    *)
(* been in an earlier party (its moves are those of an earlier build), and *)
(* every member of the party survives the battles here.                    *)

ExtraRoster == 1

BuiltMoves == [k \in 1..MovesPerMember |-> get_move_name(1)]

BigRoster ==
    [p \in 1..(PartySize + ExtraRoster) |->
        [MidMember(p, StarterLevel, TRUE) EXCEPT !.moves = BuiltMoves]]

BigInit ==
    /\ trainers \in Gauntlets
    /\ Len(trainers) > 0
    /\ current_node_id = start_node_id
    /\ current_phase = PHASE_DECISION
    /\ roster = BigRoster
    /\ party = <<>>
    /\ rebuild_count = 0
    /\ free_rebuild = TRUE
    /\ visited_routes = {"PALLET TOWN"}
    /\ build_current_mon = NoMon
    /\ build_current_moves = <<>>
    /\ current_party_slot = 0
    /\ current_move_slot = 0
    /\ ret = NoCall
    /\ call = [op |-> "init", action |-> 0, sim |-> "none", deaths |-> 0,
               survivors |-> <<>>, cutoff |-> FALSE,
               node_before |-> current_node_id, free |-> TRUE, legal |-> TRUE]
    /\ mask_followed = TRUE
    /\ HandoffIdle
    /\ TeamIdle

AllSurvive == [i \in DOMAIN party |-> TRUE]

(* roster indices submitted here: the first one, the lowest and the        *)
(* highest selectable one, and one beyond the roster                       *)
BigSpeciesInputs ==
    {0, Len(roster)} \cup
    { p - 1 : p \in { q \in SelectablePositions :
                        \/ \A o \in SelectablePositions : q <= o
                        \/ \A o \in SelectablePositions : q >= o } }

BigNext ==
    \/ StepRebuild
          /\ UNCHANGED <<handoff_vars, team_vars>>
    \/ \E a \in BigSpeciesInputs : StepBuildSpecies(a)
          /\ UNCHANGED <<handoff_vars, team_vars>>
    \/ StepBuildMove(1)
          /\ UNCHANGED <<handoff_vars, team_vars>>
    \/ StepBuildItem(0)
          /\ UNCHANGED <<handoff_vars, team_vars>>
    \/ FightSimRaises(0)
          /\ UNCHANGED <<handoff_vars, team_vars>>
    \/ FightLoss(0, AllSurvive)
          /\ UNCHANGED <<handoff_vars, team_vars>>
    \/ FightWin(0, AllSurvive)
          /\ UNCHANGED <<handoff_vars, team_vars>>

BigRosterSpec == BigInit /\ [][BigNext]_vars

----------------------------------------------------------------------------
(* Properties *)

VictoryBonus == 1000

StepReturned == ret.kind = "return"

BattleFought == call.op = "fight" /\ call.sim \in {"win", "loss"}

BuilderStep == call.op \in {"rebuild", "species", "move", "item"}

Distinct(q) == \A i, j \in DOMAIN q : i # j => q[i] # q[j]

(* C1: after reset() the phase is SELECT_STARTER and the roster empty; a   *)
(* step in SELECT_STARTER, for any action value, leaves exactly one roster *)
(* instance, alive, the phase STRATEGIST, the party empty, the position at *)
(* the start node, and returns reward 0, not terminated, not truncated.    *)
C1_StarterSelection ==
    /\ call.op = "reset" =>
          current_phase = PHASE_SELECT_STARTER /\ roster = <<>>
    /\ call.op = "starter" =>
          /\ Len(roster) = 1
          /\ roster[1].alive
          /\ current_phase = PHASE_STRATEGIST
          /\ StepReturned
          /\ ret.reward = 0 /\ ~ret.terminated /\ ~ret.truncated
          /\ party = <<>>
          /\ current_node_id = start_node_id

C1_Witness ==
    /\ call.op = "starter"
    /\ call.action = NumStarters
    /\ Len(roster) = 1
    /\ roster[1].species = DefaultStarter

(* C2: in DECISION the mask allows rebuild (1) only when the party is      *)
(* empty, and fight (0) and rebuild (1) and nothing else when it is not.   *)
C2_DecisionMask ==
    current_phase = PHASE_DECISION =>
        { a \in Actions : valid_action_mask(a) } =
            (IF party = <<>> THEN {1} ELSE {0, 1})

C2_Witness ==
    /\ current_phase = PHASE_DECISION
    /\ call.op = "strategist"
    /\ party = <<>>
    /\ ~valid_action_mask(0)
    /\ valid_action_mask(1)

(* C3: a build that follows the mask is back in DECISION as soon as        *)
(* PartySize members are built or no living, unselected roster member is   *)
(* left: every finalizing step ends in DECISION in these two cases, and in *)
(* BUILD_SPECIES otherwise.                                                *)
C3_BuilderCompletes ==
    (mask_followed /\ call.op = "item") =>
        current_phase =
            (IF Len(party) >= PartySize \/ SelectablePositions = {}
             THEN PHASE_DECISION ELSE PHASE_BUILD_SPECIES)

(* C4: a step returns terminated exactly when a battle was won at a node   *)
(* without successors, or a battle was lost, or no roster member is alive  *)
(* after the battle.                                                       *)
C4_TerminalExclusivity ==
    call.op \notin {"init", "reset"} =>
        ( (StepReturned /\ ret.terminated)
          <=>
          ( BattleFought /\
            \/ call.sim = "loss"
            \/ get_successors(call.node_before) = <<>>
            \/ ~AnyAlive(roster) ) )

C7_RebuildState ==
    /\ call.op = "rebuild" =>
          /\ StepReturned
          /\ call.free => ret.reward = 0
          /\ ~call.free => ret.reward < 0
    /\ (call.op = "fight" /\ call.sim = "win") => rebuild_count = 0
    /\ free_rebuild <=> rebuild_count = 0

C7_RebuildStep ==
    rebuild_count' < rebuild_count =>
        \/ call'.op = "reset"
        \/ call'.op = "fight" /\ call'.sim = "win"

C8_PartyUnique ==
    /\ Len(party) <= PartySize
    /\ Distinct(party)

C8_Witness ==
    /\ Len(party) = PartySize
    /\ current_phase = PHASE_DECISION
    /\ call.op = "item"
    /\ Len(roster) > PartySize

(* C9: after every builder step, every instance flagged in_party, every    *)
(* member of the party under construction and the member in progress is    *)
(* alive; a step in BUILD_SPECIES that names a dead instance selects       *)
(* nothing.                                                                *)
InProgress ==
    IF current_phase \in {PHASE_BUILD_MOVE, PHASE_BUILD_ITEM}
       /\ build_current_mon \in DOMAIN roster
    THEN {build_current_mon} ELSE {}

C9_BuilderAlive ==
    BuilderStep =>
        /\ \A p \in DOMAIN roster : roster[p].in_party => roster[p].alive
        /\ \A p \in Range(party) \cup InProgress : roster[p].alive
        /\ ( call.op = "species"
             /\ (call.action + 1) \in DOMAIN roster
             /\ ~roster[call.action + 1].alive )
           => current_phase = PHASE_BUILD_SPECIES

C9_Witness ==
    /\ call.op = "species"
    /\ (call.action + 1) \in DOMAIN roster
    /\ ~roster[call.action + 1].alive
    /\ ~call.legal
    /\ party # <<>>
    /\ ret.reward = 0 - InvalidPickPenalty

(* C10: a dispatched battle leaves each party member at the maximum of its *)
(* level and the target level of the node, and no step lowers the level of *)
(* a roster instance.                                                      *)
Dispatched(c) == c.op = "fight" /\ c.sim # "none"

C10_LevelStep ==
    \A p \in DOMAIN roster \cap DOMAIN roster' :
        /\ roster'[p].level >= roster[p].level
        /\ (Dispatched(call') /\ p \in Range(party)) =>
              roster'[p].level =
                  Max(roster[p].level,
                      Max(MinTargetLevel,
                          IF trainers[current_node_id].level_cap # NoCap
                          THEN trainers[current_node_id].level_cap
                          ELSE SeqMax(trainers[current_node_id].team)))

C11_DeathStep ==
    (call'.op = "fight" /\ call'.sim \in {"win", "loss"}) =>
        /\ DOMAIN call'.survivors = DOMAIN party
        /\ DOMAIN roster' = DOMAIN roster
        /\ \A i \in DOMAIN party :
              roster'[party[i]].alive =
                  (roster[party[i]].alive /\ call'.survivors[i])
        /\ \A p \in DOMAIN roster \ Range(party) :
              roster'[p].alive = roster[p].alive

FellInBattle(s) ==
    Cardinality({ i \in DOMAIN party : roster[party[i]].alive /\ ~s[i] })

PartyAlive == \A p \in Range(party) : roster[p].alive

C12_RewardStep ==
    /\ (call'.op = "fight" /\ call'.sim = "loss" /\ PartyAlive
          /\ AnyAlive(roster')) =>
          ret'.reward =
              0 - LossReward - FellInBattle(call'.survivors) * DeathPenalty
    /\ (call'.op = "fight" /\ call'.sim = "win" /\ PartyAlive
          /\ FellInBattle(call'.survivors) = 1
          /\ AnyAlive(roster')) =>
          /\ ret'.kind = "return"
          /\ ret'.reward > 0

C13_EngageStep ==
    (call'.op = "strategist" /\ call'.action = 0) =>
        /\ current_phase = PHASE_STRATEGIST
        /\ current_phase' = PHASE_DECISION
        /\ ret'.kind = "return"
        /\ ret'.reward = 0
        /\ ~ret'.terminated
        /\ UNCHANGED <<roster, party, current_node_id, rebuild_count,
                       visited_routes>>

C13_Engage == [][C13_EngageStep]_vars

C13_Witness ==
    /\ call.op = "strategist" /\ call.action = 0
    /\ current_phase = PHASE_DECISION
    /\ Len(roster) = 1
    /\ Len(trainers) = MaxTrainers
    /\ current_node_id = start_node_id
    /\ visited_routes = {"PALLET TOWN"}

(* C14: in BUILD_SPECIES of a run with a living roster member, the mask    *)
(* allows exactly the roster indices of the instances that are alive and   *)
(* not yet in the party under construction.                                *)
C14_SpeciesMask ==
    (current_phase = PHASE_BUILD_SPECIES /\ AnyAlive(roster)) =>
        { a \in Actions : valid_action_mask(a) } =
            { p - 1 : p \in SelectablePositions }

(* C15: after reset() or a step that did not end the run, the mask allows  *)
(* at least one action, and in STRATEGIST it allows the engage action 0.   *)
C15_MaskNonEmpty ==
    (call.op # "init" /\ ~(StepReturned /\ ret.terminated)) =>
        /\ \E a \in Actions : valid_action_mask(a)
        /\ current_phase = PHASE_STRATEGIST => valid_action_mask(0)

(* C16: a step in BUILD_MOVE that follows the mask when no legal move is   *)
(* left for the member in progress ends the member's build (the builder    *)
(* leaves BUILD_MOVE), and a member that enters the party has at least one *)
(* move.                                                                   *)
C16_MoveStep ==
    /\ ( /\ current_phase = PHASE_BUILD_MOVE
         /\ LegalMoveIds = {}
         /\ call'.op = "move"
         /\ call'.legal ) =>
            current_phase' # PHASE_BUILD_MOVE
    /\ (call'.op = "item" /\ Len(party') > Len(party)) =>
            roster'[party'[Len(party')]].moves # <<>>

C16_MemberFinalized == [][C16_MoveStep]_vars

(* C17: a builder step that bypasses the mask with a roster index out of   *)
(* range, the index of a dead or already selected instance, or a move id   *)
(* that names no move, changes neither roster, party, member in progress,  *)
(* graph position nor phase, does not end the run, and carries the same    *)
(* reward as the rejected step before it.                                  *)
RejectedNow ==
    /\ ~call'.legal
    /\ \/ /\ current_phase = PHASE_BUILD_SPECIES
          /\ call'.op = "species"
          /\ ~ValidPick(call'.action)
       \/ /\ current_phase = PHASE_BUILD_MOVE
          /\ call'.op = "move"
          /\ get_move_name(call'.action) = NoMove

RejectedBefore ==
    /\ ~call.legal
    /\ \/ call.op = "species" /\ current_phase = PHASE_BUILD_SPECIES
       \/ call.op = "move" /\ get_move_name(call.action) = NoMove

C17_RejectStep ==
    RejectedNow =>
        /\ UNCHANGED <<roster, party, build_current_mon, current_node_id,
                       current_phase>>
        /\ ret'.kind = "return"
        /\ ~ret'.terminated
        /\ RejectedBefore => ret'.reward = ret.reward

C18_NoEscape ==
    call.op \notin {"init", "reset"} =>
        /\ StepReturned
        /\ (call.op = "fight" /\ call.sim = "raise") =>
              /\ ret.terminated
              /\ ret.reward <= 0 - LossReward
              /\ ret.info = "metrics"

C20_DispatchStep ==
    Dispatched(call') => \A p \in Range(party) : roster[p].alive

BattleBase == IF call.sim = "win" THEN WinReward ELSE 0 - LossReward

trainer_unlocks(idx) ==
    CASE idx = 0 -> <<"ROUTE 1", "ROUTE 22", "ROUTE 2", "VIRIDIAN FOREST">>
      [] idx = 4 -> <<"PEWTER CITY">>
      [] idx = 5 -> <<"ROUTE 3", "MT MOON 1F">>
      [] OTHER   -> <<>>

(* C23: the step of a won battle rolls the locations its trainer unlocks   *)
(* for the first time, so that they are visited afterwards; the visited    *)
(* set changes in no other step than a won battle or a reset; a step that  *)
(* adds a creature leaves the roster with pairwise distinct species.       *)
C23_UnlockStep ==
    /\ ( /\ call'.op = "fight" /\ call'.sim = "win" /\ call'.legal
         /\ AnyAlive(roster') ) =>
           /\ ret'.kind = "return"
           /\ Range(trainer_unlocks(call'.node_before - 1)) \subseteq
                 visited_routes'
    /\ (visited_routes' # visited_routes) =>
           \/ call'.op = "reset"
           \/ call'.op = "fight" /\ call'.sim = "win"
    /\ (Len(roster') > Len(roster)) =>
           \A p, q \in DOMAIN roster' :
               (roster'[p].species = roster'[q].species) => (p = q)

TablePhases ==
    {PHASE_SELECT_STARTER, PHASE_STRATEGIST, PHASE_DECISION,
     PHASE_BUILD_SPECIES, PHASE_BUILD_MOVE}

FourthMoveAccepted ==
    /\ current_phase = PHASE_BUILD_MOVE
    /\ call'.op = "move"
    /\ AcceptsMove(call'.action)
    /\ current_move_slot' >= MovesPerMember

C24_StatedStep ==
    /\ FourthMoveAccepted =>
          /\ party' = Append(party, build_current_mon)
          /\ current_phase' = IF Len(party') >= PartySize
                              THEN PHASE_DECISION ELSE PHASE_BUILD_SPECIES
    /\ current_phase' \in TablePhases

C24_AmendedStep ==
    /\ FourthMoveAccepted =>
          /\ current_phase' = PHASE_BUILD_ITEM
          /\ UNCHANGED <<party, roster, current_party_slot>>
    /\ (current_phase = PHASE_BUILD_ITEM /\ call'.op = "item") =>
          /\ build_current_mon # NoMon =>
                party' = Append(party, build_current_mon)
          /\ build_current_mon \in DOMAIN roster =>
                roster'[build_current_mon].moves = build_current_moves
          /\ current_party_slot' = current_party_slot + 1
          /\ current_phase' = IF current_party_slot' >= PartySize
                              THEN PHASE_DECISION ELSE PHASE_BUILD_SPECIES
    /\ current_phase' \in TablePhases \cup {PHASE_BUILD_ITEM}

C25_AliveStep ==
    (call'.op # "reset") =>
        /\ Len(roster') >= Len(roster)
        /\ \A p \in DOMAIN roster :
              /\ roster'[p].species = roster[p].species
              /\ roster'[p].alive => roster[p].alive
              /\ (roster[p].alive /\ ~roster'[p].alive) =>
                    /\ call'.op = "fight"
                    /\ call'.sim \in {"win", "loss"}
                    /\ \E i \in DOMAIN party :
                          party[i] = p /\ ~call'.survivors[i]
        /\ (call'.op = "fight" /\ call'.sim \in {"win", "loss"}) =>
              \A p \in DOMAIN roster :
                  roster'[p].alive =
                      ( /\ roster[p].alive
                        /\ ~\E i \in DOMAIN party :
                              party[i] = p /\ ~call'.survivors[i] )

C26_FreshState ==
    (call.op = "reset") =>
        /\ roster = <<>>
        /\ party = <<>>
        /\ rebuild_count = 0
        /\ current_node_id = start_node_id
        /\ visited_routes = {"PALLET TOWN"}
        /\ current_phase = PHASE_SELECT_STARTER

C26_FreshStep ==
    (call.op = "reset" /\ call'.op = "starter") =>
        /\ roster' = <<get_starter_choice(call'.action)>>
        /\ roster'[1].alive
        /\ roster'[1].level = StarterLevel
        /\ party' = <<>>
        /\ visited_routes' = {"PALLET TOWN"}

C26_ResetFresh == [](C26_FreshState) /\ [][C26_FreshStep]_vars

C26_Witness ==
    /\ call.op = "starter"
    /\ build_current_mon = StaleMon
    /\ Len(trainers) > 1

----------------------------------------------------------------------------
(* build_gauntlet_graph, step by step.  A map is a record of its nodes (a  *)
(* function from node id to node), start_node_id and end_node_id; a node   *)
(* carries the index of its trainer and its next_nodes.  The uuid of the   *)
(* i-th node made is the fresh id i.                                       *)

EmptyMap == [nodes |-> <<>>, start_node_id |-> NoNode, end_node_id |-> NoNode]

GauntletNode(trainer_idx) == [trainer_idx |-> trainer_idx, next_nodes |-> <<>>]

add_edge_dropped(node, target_node_id) == node

(* GauntletNode.add_edge: append unless present *)
add_edge(node, target_node_id) ==
    IF target_node_id \in Range(node.next_nodes) THEN node
    ELSE [node EXCEPT !.next_nodes = Append(@, target_node_id)]

(* GauntletMap.add_node with a fresh id *)
add_node(g, node_id, node) == [g EXCEPT !.nodes = Append(@, node)]

(* one iteration of the loop over the trainers: i is the 1-based position *)
LoopBody(g, prev_node_id, i) ==
    LET added == add_node(g, i, GauntletNode(i - 1))
    IN  IF prev_node_id # NoNode
        THEN [added EXCEPT !.nodes[prev_node_id] = add_edge(@, i)]
        ELSE [added EXCEPT !.start_node_id = i]

RECURSIVE BuildLoop(_, _)
BuildLoop(ts, k) ==
    IF k = 0 THEN EmptyMap
    ELSE LoopBody(BuildLoop(ts, k - 1), IF k = 1 THEN NoNode ELSE k - 1, k)

build_gauntlet_graph(ts) ==
    [BuildLoop(ts, Len(ts)) EXCEPT
        !.end_node_id = IF Len(ts) = 0 THEN NoNode ELSE Len(ts)]

(* GauntletMap.get_successors *)
MapSuccessors(g, node_id) ==
    IF node_id \notin DOMAIN g.nodes THEN <<>>
    ELSE SelectSeq(g.nodes[node_id].next_nodes,
                   LAMBDA nid : nid \in DOMAIN g.nodes)

(* the nodes met by following first successors from a node, at most fuel *)
RECURSIVE FirstSuccessorWalk(_, _, _)
FirstSuccessorWalk(g, node_id, fuel) ==
    IF fuel = 0 \/ MapSuccessors(g, node_id) = <<>> THEN <<node_id>>
    ELSE <<node_id>> \o
         FirstSuccessorWalk(g, MapSuccessors(g, node_id)[1], fuel - 1)

UnknownNodeIds == {NoNode, 0 - 1, MaxTrainers + 2}

(* C27: the graph built from a non-empty trainer list has one node per     *)
(* trainer, starts at the node of the first trainer, gives every node but  *)
(* the last exactly one successor, the node of the next trainer, and the   *)
(* last node none; the walk along first successors from the start visits   *)
(* every node once and ends at end_node_id; an unknown node id has no      *)
(* successors; the graph position of the run reads this graph.             *)
C27_Chain ==
    LET g == build_gauntlet_graph(trainers)
        n == Len(trainers)
        walk == FirstSuccessorWalk(g, g.start_node_id, n + 1)
    IN  /\ \A u \in UnknownNodeIds : MapSuccessors(g, u) = <<>>
        /\ (n > 0) =>
              /\ Len(g.nodes) = n
              /\ \A i \in 1..n : g.nodes[i].trainer_idx = i - 1
              /\ g.start_node_id = 1
              /\ \A i \in 1..(n - 1) : MapSuccessors(g, i) = <<i + 1>>
              /\ MapSuccessors(g, n) = <<>>
              /\ g.end_node_id = n
              /\ walk = [i \in 1..n |-> i]
              /\ walk[Len(walk)] = g.end_node_id
              /\ start_node_id = g.start_node_id
              /\ \A i \in 1..n : get_successors(i) = MapSuccessors(g, i)

C27_Witness ==
    /\ Len(trainers) = MaxTrainers
    /\ current_node_id = build_gauntlet_graph(trainers).start_node_id
    /\ MapSuccessors(build_gauntlet_graph(trainers), current_node_id) # <<>>
    /\ call.op = "init"

(* C28: a step that returns for an action the mask marked legal, in a run  *)
(* with a living roster member, does not carry the invalid-pick penalty    *)
(* and does not leave the phase and the whole run state as they were.      *)
RunState ==
    <<current_phase, roster, party, rebuild_count, current_node_id,
      visited_routes, build_current_mon, build_current_moves,
      current_party_slot, current_move_slot>>

C28_SoundStep ==
    ( /\ call'.op \in {"starter", "strategist", "rebuild", "species",
                        "move", "item", "fight"}
      /\ call'.legal
      /\ AnyAlive(roster)
      /\ ret'.kind = "return" ) =>
        /\ ret'.reward # 0 - InvalidPickPenalty
        /\ RunState' # RunState

C28_MaskSound == [][C28_SoundStep]_vars

----------------------------------------------------------------------------
(* ThreadedBattleEnv and BridgePlayer (envs/threaded_ray_env.py).  The     *)
(* environment thread runs reset() and step(); the thread started in       *)
(* __init__ runs the event loop with the challenge loop, choose_move and   *)
(* the battle-finished callback.  Each blocking queue operation is one     *)
(* step.  A step() call and its action carry the number of the call and    *)
(* the battle of the transition the caller saw last; a transition carries  *)
(* its battle and the number of the action choose_move took before it.     *)

MaxSteps == 3

MaxBattles == 2

maxsize == 1

(* the state after __init__: the queues exist, the thread has started *)
GauntletIdle ==
    /\ trainers = <<>>
    /\ current_phase = PHASE_DECISION
    /\ roster = <<>>
    /\ party = <<>>
    /\ rebuild_count = 0
    /\ current_node_id = NoNode
    /\ visited_routes = {}
    /\ build_current_mon = NoMon
    /\ build_current_moves = <<>>
    /\ current_party_slot = 0
    /\ current_move_slot = 0
    /\ ret = NoCall
    /\ call = [op |-> "init", action |-> 0, sim |-> "none", deaths |-> 0,
               survivors |-> <<>>, cutoff |-> FALSE,
               node_before |-> NoNode, free |-> TRUE, legal |-> TRUE]
    /\ free_rebuild = TRUE
    /\ mask_followed = TRUE

HandoffInit ==
    /\ GauntletIdle
    /\ TeamIdle
    /\ action_queue = <<>>
    /\ obs_queue = <<>>
    /\ env_pc = "idle"
    /\ env_action = NoAction
    /\ env_ret = NoTransition
    /\ in_episode = "none"
    /\ player_pc = "between"
    /\ battle = 0
    /\ consumed = [n |-> 0, battle |-> 0, action |-> 0, by |-> 0]

(* reset() is entered: the caller may do so whenever it is in no call *)
EnvCallReset ==
    /\ env_pc = "idle"
    /\ env_pc' = "reset_get"
    /\ UNCHANGED <<action_queue, obs_queue, env_action, env_ret, in_episode,
                   player_pc, battle, consumed>>

(* a caller that resets only before the first episode and after a          *)
(* terminated transition                                                   *)
EnvCallResetAtEnd == in_episode # "running" /\ EnvCallReset

(* reset(): obs_queue.get() returns; reward and flags are dropped *)
EnvResetGet ==
    /\ env_pc = "reset_get"
    /\ obs_queue # <<>>
    /\ env_ret' = [Head(obs_queue) EXCEPT !.kind = "reset"]
    /\ obs_queue' = Tail(obs_queue)
    /\ env_pc' = "idle"
    /\ in_episode' = "running"
    /\ UNCHANGED <<action_queue, env_action, player_pc, battle, consumed>>

(* actions submitted: the first move, and one beyond the four moves *)
StepActions == {0, 4}

(* step(action) is entered, in a running episode *)
EnvCallStep(action) ==
    /\ env_pc = "idle"
    /\ in_episode = "running"
    /\ env_action.n < MaxSteps
    /\ env_action' = [n |-> env_action.n + 1, battle |-> env_ret.battle,
                      action |-> action]
    /\ env_pc' = "step_put"
    /\ UNCHANGED <<action_queue, obs_queue, env_ret, in_episode, player_pc,
                   battle, consumed>>

(* step(): action_queue.put(action) returns *)
EnvStepPut ==
    /\ env_pc = "step_put"
    /\ Len(action_queue) < maxsize
    /\ action_queue' = Append(action_queue, env_action)
    /\ env_pc' = "step_get"
    /\ UNCHANGED <<obs_queue, env_action, env_ret, in_episode, player_pc,
                   battle, consumed>>

(* step(): obs_queue.get() returns, and step() with it *)
EnvStepGet ==
    /\ env_pc = "step_get"
    /\ obs_queue # <<>>
    /\ env_ret' = [Head(obs_queue) EXCEPT !.kind = "step"]
    /\ obs_queue' = Tail(obs_queue)
    /\ env_pc' = "idle"
    /\ in_episode' = IF Head(obs_queue).terminated THEN "ended" ELSE "running"
    /\ UNCHANGED <<action_queue, env_action, player_pc, battle, consumed>>

(* the challenge loop starts a battle; the first request calls choose_move *)
StartBattle ==
    /\ player_pc = "between"
    /\ battle < MaxBattles
    /\ battle' = battle + 1
    /\ player_pc' = "choose_put"
    /\ UNCHANGED <<action_queue, obs_queue, env_pc, env_action, env_ret,
                   in_episode, consumed>>

(* the action choose_move took last in the battle it decides for *)
TakenInBattle == IF consumed.by = battle THEN consumed.n ELSE 0

(* choose_move: obs_queue.put(...) returns; it blocks the thread before *)
ChoosePut ==
    /\ player_pc = "choose_put"
    /\ Len(obs_queue) < maxsize
    /\ obs_queue' = Append(obs_queue,
                           [kind |-> "queued", battle |-> battle,
                            after |-> TakenInBattle, terminated |-> FALSE])
    /\ player_pc' = "choose_wait"
    /\ UNCHANGED <<action_queue, env_pc, env_action, env_ret, in_episode,
                   battle, consumed>>

(* choose_move: the polling loop sees an action, action_queue.get() *)
ChooseGet ==
    /\ player_pc = "choose_wait"
    /\ action_queue # <<>>
    /\ consumed' = [n |-> Head(action_queue).n,
                    battle |-> Head(action_queue).battle,
                    action |-> Head(action_queue).action, by |-> battle]
    /\ action_queue' = Tail(action_queue)
    /\ player_pc' = "ordered"
    /\ UNCHANGED <<obs_queue, env_pc, env_action, env_ret, in_episode,
                   battle>>

(* the order is played and the battle goes on: the next request *)
NextRequest ==
    /\ player_pc = "ordered"
    /\ player_pc' = "choose_put"
    /\ UNCHANGED <<action_queue, obs_queue, env_pc, env_action, env_ret,
                   in_episode, battle, consumed>>

(* the order is played and ends the battle: the callback is entered *)
BattleFinished ==
    /\ player_pc = "ordered"
    /\ player_pc' = "finish_put"
    /\ UNCHANGED <<action_queue, obs_queue, env_pc, env_action, env_ret,
                   in_episode, battle, consumed>>

(* _battle_finished_callback: obs_queue.put(...) returns *)
FinishPut ==
    /\ player_pc = "finish_put"
    /\ Len(obs_queue) < maxsize
    /\ obs_queue' = Append(obs_queue,
                           [kind |-> "queued", battle |-> battle,
                            after |-> TakenInBattle, terminated |-> TRUE])
    /\ player_pc' = "between"
    /\ UNCHANGED <<action_queue, env_pc, env_action, env_ret, in_episode,
                   battle, consumed>>

PlayerNext ==
    \/ StartBattle
    \/ ChoosePut
    \/ ChooseGet
    \/ NextRequest
    \/ BattleFinished
    \/ FinishPut

HandoffNext ==
    \/ EnvCallReset /\ UNCHANGED <<gauntlet_vars, team_vars>>
    \/ EnvResetGet /\ UNCHANGED <<gauntlet_vars, team_vars>>
    \/ \E a \in StepActions :
          EnvCallStep(a) /\ UNCHANGED <<gauntlet_vars, team_vars>>
    \/ EnvStepPut /\ UNCHANGED <<gauntlet_vars, team_vars>>
    \/ EnvStepGet /\ UNCHANGED <<gauntlet_vars, team_vars>>
    \/ StartBattle /\ UNCHANGED <<gauntlet_vars, team_vars>>
    \/ ChoosePut /\ UNCHANGED <<gauntlet_vars, team_vars>>
    \/ ChooseGet /\ UNCHANGED <<gauntlet_vars, team_vars>>
    \/ NextRequest /\ UNCHANGED <<gauntlet_vars, team_vars>>
    \/ BattleFinished /\ UNCHANGED <<gauntlet_vars, team_vars>>
    \/ FinishPut /\ UNCHANGED <<gauntlet_vars, team_vars>>

HandoffSpec == HandoffInit /\ [][HandoffNext]_vars

(* the same threads under a caller that resets only between episodes *)
EpisodicNext ==
    \/ EnvCallResetAtEnd /\ UNCHANGED <<gauntlet_vars, team_vars>>
    \/ EnvResetGet /\ UNCHANGED <<gauntlet_vars, team_vars>>
    \/ \E a \in StepActions :
          EnvCallStep(a) /\ UNCHANGED <<gauntlet_vars, team_vars>>
    \/ EnvStepPut /\ UNCHANGED <<gauntlet_vars, team_vars>>
    \/ EnvStepGet /\ UNCHANGED <<gauntlet_vars, team_vars>>
    \/ PlayerNext /\ UNCHANGED <<gauntlet_vars, team_vars>>

EpisodicSpec == HandoffInit /\ [][EpisodicNext]_vars

(* C29: each queue holds at most one item; a step() that has returned      *)
(* returned the transition made after choose_move took its action, in the  *)
(* battle the caller acted in, or the battle-finished transition of that   *)
(* battle; choose_move takes no action sent for another battle; and the    *)
(* two threads never wait for each other: the environment thread in        *)
(* obs_queue.get() on the empty queue while choose_move polls the empty    *)
(* action queue, or both in put() on full queues.                          *)
EnvWaitsObs == env_pc \in {"reset_get", "step_get"} /\ obs_queue = <<>>

PlayerWaitsAction == player_pc = "choose_wait" /\ action_queue = <<>>

BothWaitToPut ==
    /\ env_pc = "step_put" /\ Len(action_queue) = maxsize
    /\ player_pc \in {"choose_put", "finish_put"}
    /\ Len(obs_queue) = maxsize

C29_Handoff ==
    /\ Len(action_queue) <= 1
    /\ Len(obs_queue) <= 1
    /\ (env_ret.kind = "step" /\ env_pc = "idle") =>
          /\ env_ret.battle = env_action.battle
          /\ env_ret.after = env_action.n
    /\ (consumed.n > 0) => (consumed.battle = consumed.by)
    /\ ~(EnvWaitsObs /\ PlayerWaitsAction)
    /\ ~BothWaitToPut

----------------------------------------------------------------------------
(* SmogonDataFetcher.generate_team (data/smogon.py), one step per loop     *)
(* iteration.  A usage table is the sequence of its species entries in key *)
(* order, a species is named by its position; usage is in thousandths.     *)
(* random.choices and get_weighted_choice may return any key of positive   *)
(* weight; every weight of the tables here is positive.                    *)

MaxSpecies == 2

MaxSize == 2

MinUsage == 10

MaxTeamMoves == 4

MaxAttempts == 20

LowUsage == 5

HighUsage == 200

NoData == [loaded |-> FALSE, data |-> <<>>]

(* the "Moves" of a species: five names, a blank and one name, blanks only *)
MovePool(species) ==
    CASE species = 1 -> <<"m1", "m2", "m3", "m4", "m5">>
      [] species = 2 -> <<"", "m1">>
      [] OTHER       -> <<"">>

UsageTables ==
    { [i \in 1..n |-> [usage |-> u[i], Moves |-> MovePool(i)]] :
        n \in 0..MaxSpecies, u \in [1..MaxSpecies -> {LowUsage, HighUsage}] }

Sizes == 0..MaxSize

(* line 135 *)
usage_data == data_source.data

(* line 149 *)
valid_mons == { m \in DOMAIN usage_data : usage_data[m].usage > MinUsage }

(* line 172 *)
valid_pool(mon_name) ==
    { k \in Range(usage_data[mon_name].Moves) : k # "" }

(* line 177 *)
max_moves(mon_name) ==
    IF Cardinality(valid_pool(mon_name)) < MaxTeamMoves
    THEN Cardinality(valid_pool(mon_name)) ELSE MaxTeamMoves

(* generate_team(size) is called on a loaded table *)
TeamInit ==
    /\ GauntletIdle
    /\ HandoffIdle
    /\ data_source \in
          { [loaded |-> TRUE, data |-> t] : t \in UsageTables } \cup {NoData}
    /\ size \in Sizes
    /\ team_pc = "start"
    /\ chosen_mons = <<>>
    /\ mon_idx = 0
    /\ moves = <<>>
    /\ attempts = 0
    /\ team_parts = <<>>

(* lines 131-152: no data, or no species above the usage filter *)
TeamNoData ==
    /\ team_pc = "start"
    /\ ~data_source.loaded \/ valid_mons = {}
    /\ team_pc' = "done"
    /\ UNCHANGED <<data_source, size, chosen_mons, mon_idx, moves, attempts,
                   team_parts>>

(* lines 154-158 *)
TeamStartSampling ==
    /\ team_pc = "start"
    /\ data_source.loaded /\ valid_mons # {}
    /\ team_pc' = "sample"
    /\ UNCHANGED <<data_source, size, chosen_mons, mon_idx, moves, attempts,
                   team_parts>>

(* lines 159-163: one iteration of the sampling loop *)
SampleMon(mon) ==
    /\ team_pc = "sample"
    /\ Len(chosen_mons) < size
    /\ mon \in valid_mons
    /\ chosen_mons' = IF mon \in Range(chosen_mons) THEN chosen_mons
                      ELSE Append(chosen_mons, mon)
    /\ UNCHANGED <<data_source, size, team_pc, mon_idx, moves, attempts,
                   team_parts>>

(* line 159: the loop condition fails; line 165 *)
SampleDone ==
    /\ team_pc = "sample"
    /\ ~(Len(chosen_mons) < size)
    /\ team_pc' = "member"
    /\ mon_idx' = 1
    /\ UNCHANGED <<data_source, size, chosen_mons, moves, attempts,
                   team_parts>>

(* lines 165-177: the next member; its move sampling starts *)
MemberStart ==
    /\ team_pc = "member"
    /\ mon_idx <= Len(chosen_mons)
    /\ moves' = <<>>
    /\ attempts' = 0
    /\ team_pc' = IF valid_pool(chosen_mons[mon_idx]) # {}
                  THEN "moves" ELSE "build"
    /\ UNCHANGED <<data_source, size, chosen_mons, mon_idx, team_parts>>

(* lines 179-183: one iteration of the move loop *)
PickMove(m) ==
    /\ team_pc = "moves"
    /\ Len(moves) < max_moves(chosen_mons[mon_idx])
    /\ attempts < MaxAttempts
    /\ m \in valid_pool(chosen_mons[mon_idx])
    /\ moves' = IF m \in Range(moves) THEN moves ELSE Append(moves, m)
    /\ attempts' = attempts + 1
    /\ UNCHANGED <<data_source, size, team_pc, chosen_mons, mon_idx,
                   team_parts>>

(* lines 185-189: the loop ends; a member without move gets one *)
MovesDone ==
    /\ team_pc = "moves"
    /\ ~( /\ Len(moves) < max_moves(chosen_mons[mon_idx])
          /\ attempts < MaxAttempts )
    /\ moves' = IF moves = <<>>
                THEN <<CHOOSE k \in valid_pool(chosen_mons[mon_idx]) : TRUE>>
                ELSE moves
    /\ team_pc' = "build"
    /\ UNCHANGED <<data_source, size, chosen_mons, mon_idx, attempts,
                   team_parts>>

(* lines 218-232: the member's text is appended *)
BuildMember ==
    /\ team_pc = "build"
    /\ team_parts' = Append(team_parts,
                            [species |-> chosen_mons[mon_idx],
                             moves |-> moves])
    /\ mon_idx' = mon_idx + 1
    /\ team_pc' = "member"
    /\ UNCHANGED <<data_source, size, chosen_mons, moves, attempts>>

(* line 234 *)
TeamReturn ==
    /\ team_pc = "member"
    /\ mon_idx > Len(chosen_mons)
    /\ team_pc' = "done"
    /\ UNCHANGED <<data_source, size, chosen_mons, mon_idx, moves, attempts,
                   team_parts>>

TeamNext ==
    \/ TeamNoData /\ UNCHANGED <<gauntlet_vars, handoff_vars>>
    \/ TeamStartSampling /\ UNCHANGED <<gauntlet_vars, handoff_vars>>
    \/ \E mon \in 1..MaxSpecies :
          SampleMon(mon) /\ UNCHANGED <<gauntlet_vars, handoff_vars>>
    \/ SampleDone /\ UNCHANGED <<gauntlet_vars, handoff_vars>>
    \/ MemberStart /\ UNCHANGED <<gauntlet_vars, handoff_vars>>
    \/ \E m \in {"m1", "m2", "m3", "m4", "m5"} :
          PickMove(m) /\ UNCHANGED <<gauntlet_vars, handoff_vars>>
    \/ MovesDone /\ UNCHANGED <<gauntlet_vars, handoff_vars>>
    \/ BuildMember /\ UNCHANGED <<gauntlet_vars, handoff_vars>>
    \/ TeamReturn /\ UNCHANGED <<gauntlet_vars, handoff_vars>>

TeamSpec == TeamInit /\ [][TeamNext]_vars

(* C30: a call of generate_team that has not returned can always take a    *)
(* step that brings it forward (every loop is left after finitely many     *)
(* such steps: the sampling loop after size new species, the move loop     *)
(* after MaxAttempts draws), so that it returns; what it returns is empty, *)
(* or holds exactly size members of pairwise distinct species, each with   *)
(* at most 4 pairwise distinct moves and with at least one move when the   *)
(* species has a named move.                                               *)
TeamReturned == team_pc = "done"

TeamCanAdvance == ENABLED <<TeamNext>>_vars

TeamWellFormed ==
    \/ team_parts = <<>>
    \/ /\ Len(team_parts) = size
       /\ \A i, j \in DOMAIN team_parts :
             (team_parts[i].species = team_parts[j].species) => (i = j)
       /\ \A i \in DOMAIN team_parts :
             /\ Len(team_parts[i].moves) <= 4
             /\ \A a, b \in DOMAIN team_parts[i].moves :
                   (team_parts[i].moves[a] = team_parts[i].moves[b])
                       => (a = b)
             /\ (valid_pool(team_parts[i].species) # {}) =>
                   (team_parts[i].moves # <<>>)

C30_TeamTerminates ==
    /\ TeamReturned => TeamWellFormed
    /\ TeamReturned \/ TeamCanAdvance

====
